---- MODULE Spec2Model ----
(***************************************************************************)
(* Verification model of infra_cli: the Pipeline orchestrator              *)
(* (pipeline.py), the CheckpointManager (utils/checkpoints.py), the retry  *)
(* wrapper (utils/backoff.py) and the token-bucket RateLimiter             *)
(* (utils/rate_limiter.py).                                                *)
(*                                                                         *)
(* The specifications share the variables:                                 *)
(*   Spec         non-overlapping Pipeline.run executions over one ledger  *)
(*                file and one output file                                 *)
(*   SpecOrder    one run whose tasks' outcomes are fixed in advance       *)
(*   SpecTwo      two Pipeline processes running at the same time          *)
(*   SpecMark     runs with mark_processed taken statement by statement    *)
(*   SpecBench    Pipeline.bench                                           *)
(*   SpecCkpt     threads calling mark_processed on one CheckpointManager  *)
(*   SpecCkptLoad CheckpointManager.__init__ on any ledger file            *)
(*   SpecRetry    one call of the wrapper returned by retry()              *)
(*   SpecRL       threads calling acquire() on one RateLimiter             *)
(*   SpecRLFair   the same under fair scheduling                           *)
(*   SpecRLExc    the same with sleeps that an exception may end           *)
(*   SpecRLNew    RateLimiter.__init__ followed by acquire()               *)
(*   SpecWrite    threads calling write_result with one lock               *)
(***************************************************************************)
EXTENDS Integers, Sequences, FiniteSets, Bags, TLC

\* ------------------------------------------------------------------ bounds
NFiles == 2
MaxRuns == 2
MaxFails == 2
NThreads == 2
MaxCalls == 2
MaxRetries == 2
MaxTime == 6
MaxAcquires == 3

\* retries of the pipeline's wrappers (BackoffConfig.retries as set by the
\* smoke test)
PipelineRetries == 1
\* rate_limit_per_sec of the pipeline's configuration
PipelineRate == 1
\* clock resolution of the model: ticks of time.monotonic() per second
TicksPerSec == 2
MaxWrites == 3
MaxLedgerLen == 4
\* DummyClassifier.short_threshold
short_threshold == 50

None == "None"

\* --------------------------------------------------------------- variables
VARIABLES
  \* files on disk, shared by every run
  ledger,         \* checkpoint file: sequence of characters
  output,         \* output file: the bag of its lines, one record per line
                  \* (the program only appends to it and never reads it)
  content,        \* content[p]: the bytes of input file p (unchanged)
  \* CheckpointManager
  processed,      \* self.processed
  ckLock,         \* self._lock: the set of threads holding it
  cpc,            \* cpc[t]: position of thread t in mark_processed
  carg,           \* carg[t]: the file_hash argument of thread t
  ccalls,         \* ccalls[t]: calls of mark_processed started by t
  loaded,         \* entries loaded by __init__
  appended,       \* fingerprints appended to the file by mark_processed
  returned,       \* fingerprints h for which mark_processed(h) returned
  \* Pipeline.run
  phase,          \* where run() is: idle, submitting, awaiting, complete,
                  \* raised (left by an exception), interrupted
  runNo,          \* number of runs started
  to_process,     \* the discovered paths the submission loop has not
                  \* visited yet (the list is in filesystem order, which
                  \* is arbitrary: any of them may be the next)
  futures,        \* futures: pairs <<path, file_hash>> of submitted tasks
  cur,            \* the path the loop of run() is at, as a set: in the
                  \* submission loop once acquire() has returned for it,
                  \* in the collection loop once its record is built
  step,           \* next statement for cur: "submit", "write" or "mark"
                  \* ("marking" inside mark_processed)
  failed,         \* tasks handled by the except clause: <<path, stage>>
  written,        \* paths with a record appended in this run
  marked,         \* paths for which mark_processed returned in this run
  startProcessed, \* self.checkpoints.processed as loaded for this run
  poolShutdown,   \* self.pool.shutdown(wait=True) has returned
  prevClean,      \* the previous run completed and none of its tasks failed
  prevRan,        \* a previous run reached the end of run()
  config,         \* the Config the runs are started with
  acquires,       \* calls of rate_limiter.acquire() in this run
  \* retry wrapper
  retries, exceptions, op, attempts, calls, rpc, sleeps,
  \* RateLimiter
  rate,           \* self.rate, tokens per second
  capacity,       \* self.capacity, in units of 1/TicksPerSec token
  tokens,         \* self._tokens, in units of 1/TicksPerSec token
  last_checked,   \* self._last_checked, in ticks
  now,            \* time.monotonic(), in ticks
  rlLock,         \* self._lock: the set of threads holding it
  lpc,            \* lpc[t]: position of thread t in acquire
  wake,           \* wake[t]: the tick at which t's sleep may end
  lcalls,         \* calls of acquire started
  acquired,       \* calls of acquire that consumed a token and returned
  callers,        \* number of threads that call acquire
  limiter,        \* "none" before RateLimiter(...), "ok" once built, else the error raised
  t0,             \* the tick at which the limiter was constructed
  \* write_result, seen at the level of the characters written
  outchars,       \* the output file: sequence of characters
  wLock,          \* the lock passed to write_result: the set of its holders
  wpc,            \* wpc[t]: position of thread t in write_result
  wline,          \* wline[t]: line + "\n" of thread t's call
  wpos,           \* wpos[t]: how much of it has reached the file
  wcalls,         \* calls of write_result started
  \* Pipeline.bench
  bpc,            \* where bench() is: idle, loop, done, raised
  bn,             \* the argument n
  latencies,      \* the list latencies, as the bag of its values (bench
                  \* only sorts it and takes its length and its maximum)
  bcalls,         \* calls of classify_with_retry made by bench
  p95,            \* the reported 95th percentile, as a set: {} before the report
  \* what the environment holds for each task of a run
  fate,           \* fate[path]: the stage at which the task of path fails
                  \* when it gets there, or "ok"
  \* two Pipeline processes running at the same time on the same files
  procs           \* procs[r]: the state of run() in process r

ckVars == <<processed, ckLock, cpc, carg, ccalls, loaded, appended, returned>>
fileVars == <<ledger, output, content>>
pipeVars == <<phase, runNo, to_process, futures, cur, step,
              failed, written, marked, startProcessed, poolShutdown,
              prevClean, prevRan, config, acquires>>
retryVars == <<retries, exceptions, op, attempts, calls, rpc, sleeps>>
rlVars == <<rate, capacity, tokens, last_checked, now, rlLock, lpc, wake,
            lcalls, acquired, callers, t0, limiter>>
writeVars == <<outchars, wLock, wpc, wline, wpos, wcalls>>
benchVars == <<bpc, bn, latencies, bcalls, p95>>
envVars == <<fate, procs>>
vars == <<fileVars, ckVars, pipeVars, retryVars, rlVars, writeVars, benchVars,
          envVars>>

Paths == 1..NFiles
Contents == 1..NFiles
Threads == 1..NThreads

\* ------------------------------------------------------------ small helpers
Range(s) == {s[i] : i \in 1..Len(s)}

Min(a, b) == IF a <= b THEN a ELSE b

\* ceil(a / b) for a >= 0, b > 0
CeilDiv(a, b) == (a + b - 1) \div b

\* ------------------------------------------------------------- fingerprints
HexDigits == <<"a", "b">>
NL == "\n"
Whitespace == {" ", NL}

\* hash_file: the hex digest of a file's bytes; injective on Contents
hash_file(c) == <<HexDigits[((c \div 2) % 2) + 1], HexDigits[(c % 2) + 1]>>

Fingerprints == {hash_file(c) : c \in Contents}

\* ------------------------------------------------------ CheckpointManager
\* str.strip(): drop leading and trailing whitespace
RECURSIVE LStrip(_)
LStrip(s) == IF s /= <<>> /\ Head(s) \in Whitespace THEN LStrip(Tail(s)) ELSE s

RECURSIVE RStrip(_)
RStrip(s) ==
  IF s /= <<>> /\ s[Len(s)] \in Whitespace
  THEN RStrip(SubSeq(s, 1, Len(s) - 1)) ELSE s

Strip(s) == RStrip(LStrip(s))

\* "for line in f": the lines of a text file, each up to and including its
\* line terminator (the last one possibly unterminated)
RECURSIVE FileLines(_, _)
FileLines(file, acc) ==
  IF file = <<>> THEN (IF acc = <<>> THEN <<>> ELSE <<acc>>)
  ELSE IF Head(file) = NL
       THEN <<Append(acc, NL)>> \o FileLines(Tail(file), <<>>)
       ELSE FileLines(Tail(file), Append(acc, Head(file)))

\* CheckpointManager.__init__: the set read from the ledger file
LoadLedger(file) ==
  LET lines == FileLines(file, <<>>)
  IN {Strip(lines[i]) : i \in {j \in 1..Len(lines) : Strip(lines[j]) /= <<>>}}

\* is_processed
is_processedNever(set, file_hash) == FALSE

is_processed(set, file_hash) == file_hash \in set

\* the text mark_processed writes for one fingerprint
LedgerLineUnterminated(file_hash) == file_hash

LedgerLine(file_hash) == file_hash \o <<NL>>

\* f.write(file_hash + "\n") on a file opened for append
LedgerAppendLost(file, file_hash) == file

LedgerAppend(file, file_hash) == file \o LedgerLine(file_hash)

\* mark_processed, line 51: the append happens only for a new fingerprint
MarkNeededAlways(set, file_hash) == TRUE

MarkNeeded(set, file_hash) == file_hash \notin set

\* neutral values of the CheckpointManager's thread bookkeeping
CkIdle ==
  /\ ckLock = {}
  /\ cpc = [t \in Threads |-> "idle"]
  /\ carg = [t \in Threads |-> <<>>]
  /\ ccalls = [t \in Threads |-> 0]
  /\ appended = <<>>
  /\ returned = {}

\* ledger files a CheckpointManager may be constructed on: no file, files
\* written by earlier runs, and a file with a blank and a padded line
InitLedgers ==
  {<<>>,
   LedgerLine(hash_file(1)),
   <<NL, " ">> \o hash_file(2) \o <<" ", NL>>}

\* the characters of a ledger file that something else wrote or damaged:
\* hex digits, a character that is no hex digit, blanks and line ends
LedgerChars == {"a", "b", "z", " ", NL}

RECURSIVE SeqsUpTo(_, _)
SeqsUpTo(S, n) ==
  IF n = 0 THEN {<<>>}
  ELSE LET shorter == SeqsUpTo(S, n - 1)
       IN shorter \cup {Append(q, x) : q \in shorter, x \in S}

LedgerFiles == SeqsUpTo(LedgerChars, MaxLedgerLen)

\* CheckpointManager(path), lines 27-38: a new manager reads the file
CkNew ==
  /\ processed' = LoadLedger(ledger)
  /\ loaded' = processed'
  /\ UNCHANGED <<ledger, ckLock, cpc, carg, ccalls, appended, returned>>
  /\ UNCHANGED <<output, content, pipeVars, retryVars, writeVars, benchVars, envVars, rlVars>>

\* a thread calls mark_processed(h)
CkCall(t, h) ==
  /\ cpc[t] = "idle"
  /\ ccalls[t] < MaxCalls
  /\ cpc' = [cpc EXCEPT ![t] = "lock"]
  /\ carg' = [carg EXCEPT ![t] = h]
  /\ ccalls' = [ccalls EXCEPT ![t] = @ + 1]
  /\ ledger' = ledger
  /\ UNCHANGED <<processed, ckLock, loaded, appended, returned>>
  /\ UNCHANGED <<output, content, pipeVars, retryVars, writeVars, benchVars, envVars, rlVars>>

\* "with self._lock": blocks until the lock is free
CkLock(t) ==
  /\ cpc[t] = "lock"
  /\ ckLock = {}
  /\ ckLock' = {t}
  /\ cpc' = [cpc EXCEPT ![t] = "check"]
  /\ ledger' = ledger
  /\ UNCHANGED <<processed, carg, ccalls, loaded, appended, returned>>
  /\ UNCHANGED <<output, content, pipeVars, retryVars, writeVars, benchVars, envVars, rlVars>>

\* "if file_hash not in self.processed"
CkCheck(t) ==
  /\ cpc[t] = "check"
  /\ cpc' = [cpc EXCEPT ![t] =
               IF MarkNeeded(processed, carg[t]) THEN "append" ELSE "unlock"]
  /\ ledger' = ledger
  /\ UNCHANGED <<processed, ckLock, carg, ccalls, loaded, appended, returned>>
  /\ UNCHANGED <<output, content, pipeVars, retryVars, writeVars, benchVars, envVars, rlVars>>

\* the append to the ledger file succeeds
CkAppend(t) ==
  /\ cpc[t] = "append"
  /\ ledger' = LedgerAppend(ledger, carg[t])
  /\ appended' = Append(appended, carg[t])
  /\ cpc' = [cpc EXCEPT ![t] = "add"]
  /\ UNCHANGED <<processed, ckLock, carg, ccalls, loaded, returned>>
  /\ UNCHANGED <<output, content, pipeVars, retryVars, writeVars, benchVars, envVars, rlVars>>

\* the open or the write raises OSError: the with-block releases the lock
\* and the exception leaves mark_processed
CkAppendFail(t) ==
  /\ cpc[t] = "append"
  /\ ckLock' = {}
  /\ cpc' = [cpc EXCEPT ![t] = "idle"]
  /\ ledger' = ledger
  /\ UNCHANGED <<processed, carg, ccalls, loaded, appended, returned>>
  /\ UNCHANGED <<output, content, pipeVars, retryVars, writeVars, benchVars, envVars, rlVars>>

\* "self.processed.add(file_hash)"
CkAdd(t) ==
  /\ cpc[t] = "add"
  /\ processed' = processed \cup {carg[t]}
  /\ cpc' = [cpc EXCEPT ![t] = "unlock"]
  /\ ledger' = ledger
  /\ UNCHANGED <<ckLock, carg, ccalls, loaded, appended, returned>>
  /\ UNCHANGED <<output, content, pipeVars, retryVars, writeVars, benchVars, envVars, rlVars>>

\* leaving the with-block: the lock is released and the call returns
CkUnlock(t) ==
  /\ cpc[t] = "unlock"
  /\ ckLock' = {}
  /\ cpc' = [cpc EXCEPT ![t] = "idle"]
  /\ returned' = returned \cup {carg[t]}
  /\ ledger' = ledger
  /\ UNCHANGED <<processed, carg, ccalls, loaded, appended>>
  /\ UNCHANGED <<output, content, pipeVars, retryVars, writeVars, benchVars, envVars, rlVars>>

CkNext ==
  \/ \E t \in Threads, h \in Fingerprints : CkCall(t, h)
  \/ \E t \in Threads : CkLock(t)
  \/ \E t \in Threads : CkCheck(t)
  \/ \E t \in Threads : CkAppend(t)
  \/ \E t \in Threads : CkAppendFail(t)
  \/ \E t \in Threads : CkAdd(t)
  \/ \E t \in Threads : CkUnlock(t)

\* ------------------------------------------------------------ retry wrapper
\* exception classes an operation may raise: a transient I/O error, invalid
\* input, and a BaseException that is not an Exception
ErrorClasses == {"OSError", "ValueError", "KeyboardInterrupt"}

\* the default "exceptions" parameter, (Exception,): every Exception subclass
DefaultExceptions == {"OSError", "ValueError"}

\* the operations wrapped: op.kind is raised by the first op.k calls (by
\* every call when op.always), later calls end with op.last: they return
\* ("ok") or raise another class
Operations ==
  [k : 0..MaxFails, always : BOOLEAN, kind : ErrorClasses,
   last : {"ok"} \cup ErrorClasses]

\* what call number n of the operation does
Outcome(o, n) == IF o.always \/ n <= o.k THEN o.kind ELSE o.last

\* "except exceptions as exc": is the raised class caught
CatchesAll(excs, err) == TRUE

Catches(excs, err) == err \in excs

\* "if attempts >= retries: raise"
ExhaustedOffByOne(att, r) == att + 1 >= r

Exhausted(att, r) == att >= r

\* one pass of the wrapper's loop body for a call that ended with outcome:
\* "return" the value, "raise" the failure, or "sleep" and call again
RetryDecision(outcome, att, r, excs) ==
  IF outcome = "ok" THEN "return"
  ELSE IF ~Catches(excs, outcome) THEN "raise"
  ELSE IF Exhausted(att, r) THEN "raise"
  ELSE "sleep"

\* the whole wrapper call, as the loop runs it: the result and the number of
\* calls of the wrapped operation
RECURSIVE RetryLoop(_, _, _, _, _)
RetryLoop(o, r, excs, att, n) ==
  LET outcome == Outcome(o, n + 1)
      d == RetryDecision(outcome, att, r, excs)
  IN IF d = "return" THEN [result |-> "ok", calls |-> n + 1]
     ELSE IF d = "raise" THEN [result |-> outcome, calls |-> n + 1]
     ELSE RetryLoop(o, r, excs, att + 1, n + 1)

wrapper(o, r, excs) == RetryLoop(o, r, excs, 0, 0)

RetryIdle ==
  /\ retries = PipelineRetries
  /\ exceptions = DefaultExceptions
  /\ op = [k |-> 0, always |-> FALSE, kind |-> "OSError", last |-> "ok"]
  /\ attempts = 0
  /\ calls = 0
  /\ rpc = "idle"
  /\ sleeps = 0

\* wrapper(*args): "attempts = 0", enter the loop
RetryInvoke ==
  /\ rpc = "idle"
  /\ attempts' = 0
  /\ rpc' = "call"
  /\ UNCHANGED <<retries, exceptions, op, calls, sleeps>>
  /\ UNCHANGED <<fileVars, ckVars, pipeVars, rlVars, writeVars, benchVars, envVars>>

\* "return func(*args, **kwargs)" and the except clause
RetryCall ==
  /\ rpc = "call"
  /\ calls' = calls + 1
  /\ LET d == RetryDecision(Outcome(op, calls + 1), attempts, retries, exceptions)
     IN rpc' = CASE d = "return" -> "returned"
                 [] d = "raise" -> "raised"
                 [] OTHER -> "sleep"
  /\ UNCHANGED <<retries, exceptions, op, attempts, sleeps>>
  /\ UNCHANGED <<fileVars, ckVars, pipeVars, rlVars, writeVars, benchVars, envVars>>

\* "time.sleep(wait_time); attempts += 1; continue"
RetrySleep ==
  /\ rpc = "sleep"
  /\ sleeps' = sleeps + 1
  /\ attempts' = attempts + 1
  /\ rpc' = "call"
  /\ UNCHANGED <<retries, exceptions, op, calls>>
  /\ UNCHANGED <<fileVars, ckVars, pipeVars, rlVars, writeVars, benchVars, envVars>>

RetryNext ==
  \/ RetryInvoke
  \/ RetryCall
  \/ RetrySleep

SpecRetryInit ==
  /\ retries \in 0..MaxRetries
  /\ exceptions \in {DefaultExceptions, {"OSError"}}
  /\ op \in Operations
  /\ attempts = 0
  /\ calls = 0
  /\ rpc = "idle"
  /\ sleeps = 0

\* -------------------------------------------------------------- RateLimiter
\* one whole token, in the units of tokens and capacity
Unit == TicksPerSec

\* lines 50-53: "self._tokens = min(self.capacity, self._tokens + elapsed *
\* self.rate)"; a tick adds rate / TicksPerSec tokens, that is rate units
Refill(tok, cap, r, last, t) == Min(cap, tok + (t - last) * r)

\* "if self._tokens < 1.0"
MustWait(tok) == tok < Unit

\* "sleep_time = (1.0 - self._tokens) / self.rate", in ticks; time.sleep
\* suspends the thread for at least that long
SleepTicksNone(tok, r) == 0

SleepTicks(tok, r) == CeilDiv(Unit - tok, r)

\* RateLimiter.__init__: "capacity" defaults to the rate when omitted
LimiterCapacity(r, cap, given) == IF given THEN cap ELSE r * Unit

RLIdle ==
  /\ rate = 1
  /\ capacity = Unit
  /\ tokens = Unit
  /\ last_checked = 0
  /\ now = 0
  /\ rlLock = {}
  /\ lpc = [t \in Threads |-> "idle"]
  /\ wake = [t \in Threads |-> 0]
  /\ lcalls = 0
  /\ acquired = 0
  /\ callers = 0
  /\ t0 = 0
  /\ limiter = "none"

\* a thread calls acquire()
RLCall(t) ==
  /\ limiter = "ok"
  /\ t <= callers
  /\ lpc[t] = "idle"
  /\ lcalls < MaxAcquires
  /\ lcalls' = lcalls + 1
  /\ lpc' = [lpc EXCEPT ![t] = "lock"]
  /\ UNCHANGED <<rate, capacity, tokens, last_checked, now, rlLock, wake,
                 acquired, callers, limiter, t0>>
  /\ UNCHANGED <<fileVars, ckVars, pipeVars, retryVars, writeVars, benchVars, envVars>>

\* "with self._lock": blocks until the lock is free
RLLock(t) ==
  /\ lpc[t] = "lock"
  /\ rlLock = {}
  /\ rlLock' = {t}
  /\ lpc' = [lpc EXCEPT ![t] = "refill"]
  /\ UNCHANGED <<rate, capacity, tokens, last_checked, now, wake, lcalls,
                 acquired, callers, limiter, t0>>
  /\ UNCHANGED <<fileVars, ckVars, pipeVars, retryVars, writeVars, benchVars, envVars>>

\* line 57, self._lock.release(): who holds the lock during the sleep
SleepHoldersKept(holders) == holders

SleepHolders(holders) == {}

\* lines 50-59: refill; with less than one token compute sleep_time, release
\* the lock and go to sleep
RLRefill(t) ==
  /\ lpc[t] = "refill"
  /\ tokens' = Refill(tokens, capacity, rate, last_checked, now)
  /\ last_checked' = now
  /\ IF MustWait(tokens')
     THEN /\ rlLock' = SleepHolders(rlLock)
          /\ wake' = [wake EXCEPT ![t] = now + SleepTicks(tokens', rate)]
          /\ lpc' = [lpc EXCEPT ![t] = "sleep"]
     ELSE /\ lpc' = [lpc EXCEPT ![t] = "consume"]
          /\ UNCHANGED <<rlLock, wake>>
  /\ UNCHANGED <<rate, capacity, now, lcalls, acquired, callers, limiter, t0>>
  /\ UNCHANGED <<fileVars, ckVars, pipeVars, retryVars, writeVars, benchVars, envVars>>

\* line 59, time.sleep(sleep_time): the sleep that is to end at tick w is
\* over at tick t_now
SleepOverNever(t_now, w) == FALSE

SleepOver(t_now, w) == t_now >= w

\* time.sleep(sleep_time) returns, no earlier than after sleep_time; the
\* call has no further use for sleep_time
RLWake(t) ==
  /\ lpc[t] = "sleep"
  /\ SleepOver(now, wake[t])
  /\ lpc' = [lpc EXCEPT ![t] = "relock"]
  /\ wake' = [wake EXCEPT ![t] = 0]
  /\ UNCHANGED <<rate, capacity, tokens, last_checked, now, rlLock,
                 lcalls, acquired, callers, limiter, t0>>
  /\ UNCHANGED <<fileVars, ckVars, pipeVars, retryVars, writeVars, benchVars, envVars>>

\* the finally clause, lines 64-68: take the lock again and refill
RLRelock(t) ==
  /\ lpc[t] = "relock"
  /\ rlLock = {}
  /\ rlLock' = {t}
  /\ tokens' = Refill(tokens, capacity, rate, last_checked, now)
  /\ last_checked' = now
  /\ lpc' = [lpc EXCEPT ![t] = "consume"]
  /\ UNCHANGED <<rate, capacity, now, wake, lcalls, acquired, callers, limiter, t0>>
  /\ UNCHANGED <<fileVars, ckVars, pipeVars, retryVars, writeVars, benchVars, envVars>>

\* "self._tokens -= 1.0", then the with-block releases the lock
RLConsume(t) ==
  /\ lpc[t] = "consume"
  /\ tokens' = tokens - Unit
  /\ rlLock' = {}
  /\ acquired' = acquired + 1
  /\ lpc' = [lpc EXCEPT ![t] = "idle"]
  /\ UNCHANGED <<rate, capacity, last_checked, now, wake, lcalls, callers, limiter, t0>>
  /\ UNCHANGED <<fileVars, ckVars, pipeVars, retryVars, writeVars, benchVars, envVars>>

\* the monotonic clock advances: MaxTime bounds the time that passes with
\* nobody waiting for it, a sleeper's wake-up time is always reached
Tick ==
  /\ \/ now < MaxTime
     \/ \E t \in Threads : lpc[t] = "sleep" /\ now < wake[t]
  /\ now' = now + 1
  /\ UNCHANGED <<rate, capacity, tokens, last_checked, rlLock, lpc, wake,
                 lcalls, acquired, callers, limiter, t0>>
  /\ UNCHANGED <<fileVars, ckVars, pipeVars, retryVars, writeVars, benchVars, envVars>>

RLNext ==
  \/ \E t \in Threads : RLCall(t)
  \/ \E t \in Threads : RLLock(t)
  \/ \E t \in Threads : RLRefill(t)
  \/ \E t \in Threads : RLWake(t)
  \/ \E t \in Threads : RLRelock(t)
  \/ \E t \in Threads : RLConsume(t)
  \/ Tick

\* line 59: time.sleep raises (KeyboardInterrupt, an asynchronous
\* exception); the finally clause runs next
RLSleepRaises(t) ==
  /\ lpc[t] = "sleep"
  /\ lpc' = [lpc EXCEPT ![t] = "finally"]
  /\ wake' = [wake EXCEPT ![t] = 0]
  /\ UNCHANGED <<rate, capacity, tokens, last_checked, now, rlLock,
                 lcalls, acquired, callers, limiter, t0>>
  /\ UNCHANGED <<fileVars, ckVars, pipeVars, retryVars, writeVars, benchVars, envVars>>

\* lines 60-66 with the exception pending: take the lock again and refill
RLFinally(t) ==
  /\ lpc[t] = "finally"
  /\ rlLock = {}
  /\ rlLock' = {t}
  /\ tokens' = Refill(tokens, capacity, rate, last_checked, now)
  /\ last_checked' = now
  /\ lpc' = [lpc EXCEPT ![t] = "unwind"]
  /\ UNCHANGED <<rate, capacity, now, wake, lcalls, acquired, callers, limiter, t0>>
  /\ UNCHANGED <<fileVars, ckVars, pipeVars, retryVars, writeVars, benchVars, envVars>>

\* the exception leaves the with-block, which releases the lock, and then
\* acquire(); line 68 is not reached
RLUnwind(t) ==
  /\ lpc[t] = "unwind"
  /\ rlLock' = rlLock \ {t}
  /\ lpc' = [lpc EXCEPT ![t] = "idle"]
  /\ UNCHANGED <<rate, capacity, tokens, last_checked, now, wake, lcalls,
                 acquired, callers, limiter, t0>>
  /\ UNCHANGED <<fileVars, ckVars, pipeVars, retryVars, writeVars, benchVars, envVars>>

\* acquire() calls whose sleep may be cut short by an exception
RLExcNext ==
  \/ \E t \in Threads : RLCall(t)
  \/ \E t \in Threads : RLLock(t)
  \/ \E t \in Threads : RLRefill(t)
  \/ \E t \in Threads : RLWake(t)
  \/ \E t \in Threads : RLRelock(t)
  \/ \E t \in Threads : RLConsume(t)
  \/ \E t \in Threads : RLSleepRaises(t)
  \/ \E t \in Threads : RLFinally(t)
  \/ \E t \in Threads : RLUnwind(t)
  \/ Tick

SpecRLInit ==
  /\ rate \in 1..2
  /\ capacity \in {LimiterCapacity(rate, 1, TRUE),
                   LimiterCapacity(rate, Unit, TRUE),
                   LimiterCapacity(rate, 0, FALSE)}
  /\ tokens = capacity
  /\ last_checked = 0
  /\ now = 0
  /\ rlLock = {}
  /\ lpc = [t \in Threads |-> "idle"]
  /\ wake = [t \in Threads |-> 0]
  /\ lcalls = 0
  /\ acquired = 0
  /\ callers \in 1..NThreads
  /\ t0 = 0
  /\ limiter = "ok"

\* the arguments RateLimiter(rate_per_sec, capacity) is called with:
\* capacity given (in units) or omitted
RateArgs == -1..2

CapacityArgs == {<<-Unit, TRUE>>, <<0, TRUE>>, <<1, TRUE>>, <<Unit, TRUE>>,
                 <<0, FALSE>>}

\* RateLimiter.__init__, lines 30-37: only the rate is tested
RLConstruct(r, cap, given) ==
  /\ limiter = "none"
  /\ IF r <= 0
     THEN /\ limiter' = "ValueError"
          /\ UNCHANGED <<rate, capacity, tokens, last_checked, t0>>
     ELSE /\ rate' = r
          /\ capacity' = LimiterCapacity(r, cap, given)
          /\ tokens' = capacity'
          /\ last_checked' = now
          /\ t0' = now
          /\ limiter' = "ok"
  /\ UNCHANGED <<now, rlLock, lpc, wake, lcalls, acquired, callers>>
  /\ UNCHANGED <<fileVars, ckVars, pipeVars, retryVars, writeVars, benchVars, envVars>>

\* a program that builds a limiter and then calls acquire() on it
RLNewNext ==
  \/ \E r \in RateArgs, c \in CapacityArgs : RLConstruct(r, c[1], c[2])
  \/ RLNext

\* acquire() by the only caller, run to its return from tick t: the sleep,
\* when there is one, lasts exactly sleep_time
AcquireAloneFree(tok, cap, r, last, t) == [tokens |-> tok, now |-> t]

AcquireAlone(tok, cap, r, last, t) ==
  LET tok1 == Refill(tok, cap, r, last, t)
      t2 == t + SleepTicks(tok1, r)
  IN IF MustWait(tok1)
     THEN [tokens |-> Refill(tok1, cap, r, t, t2) - Unit, now |-> t2]
     ELSE [tokens |-> tok1 - Unit, now |-> t]

\* ------------------------------------------------------------- write_result
\* results handed to write_result, by the size of their JSON text
WriteResults == 1..2

\* json.dumps(result): one line of text; line ends inside strings are
\* escaped, so the text holds no line terminator
json_dumps(result) == <<"{">> \o [i \in 1..result |-> "x"] \o <<"}">>

WriteIdle ==
  /\ outchars = <<>>
  /\ wLock = {}
  /\ wpc = [t \in Threads |-> "idle"]
  /\ wline = [t \in Threads |-> <<>>]
  /\ wpos = [t \in Threads |-> 0]
  /\ wcalls = 0

\* lines 35-36: a thread calls write_result(output_file, result, lock) and
\* builds the line
WrCall(t, result) ==
  /\ wpc[t] = "idle"
  /\ wcalls < MaxWrites
  /\ wcalls' = wcalls + 1
  /\ wline' = [wline EXCEPT ![t] = json_dumps(result) \o <<NL>>]
  /\ wpos' = [wpos EXCEPT ![t] = 0]
  /\ wpc' = [wpc EXCEPT ![t] = "lock"]
  /\ UNCHANGED <<outchars, wLock>>
  /\ UNCHANGED <<fileVars, ckVars, pipeVars, retryVars, rlVars, benchVars, envVars>>

\* "with lock": may thread t enter
LockFreeAlways(holders) == TRUE

LockFree(holders) == holders = {}

\* line 37: wait for the lock and take it; line 38: open for append
WrLock(t) ==
  /\ wpc[t] = "lock"
  /\ LockFree(wLock)
  /\ wLock' = wLock \cup {t}
  /\ wpc' = [wpc EXCEPT ![t] = "write"]
  /\ UNCHANGED <<outchars, wline, wpos, wcalls>>
  /\ UNCHANGED <<fileVars, ckVars, pipeVars, retryVars, rlVars, benchVars, envVars>>

\* lines 38-39: the text reaches the end of the file (append mode), in as
\* many pieces as the I/O layer cuts it into
WrWrite(t) ==
  /\ wpc[t] = "write"
  /\ wpos[t] < Len(wline[t])
  /\ outchars' = Append(outchars, wline[t][wpos[t] + 1])
  /\ wpos' = [wpos EXCEPT ![t] = @ + 1]
  /\ UNCHANGED <<wLock, wpc, wline, wcalls>>
  /\ UNCHANGED <<fileVars, ckVars, pipeVars, retryVars, rlVars, benchVars, envVars>>

\* the file is closed and the with-block releases the lock
WrUnlock(t) ==
  /\ wpc[t] = "write"
  /\ wpos[t] = Len(wline[t])
  /\ wLock' = wLock \ {t}
  /\ wpc' = [wpc EXCEPT ![t] = "idle"]
  /\ UNCHANGED <<outchars, wline, wpos, wcalls>>
  /\ UNCHANGED <<fileVars, ckVars, pipeVars, retryVars, rlVars, benchVars, envVars>>

WriteNext ==
  \/ \E t \in Threads, result \in WriteResults : WrCall(t, result)
  \/ \E t \in Threads : WrLock(t)
  \/ \E t \in Threads : WrWrite(t)
  \/ \E t \in Threads : WrUnlock(t)

\* ----------------------------------------------------------------- Pipeline
\* DummyClassifier.classify: the word count of the text of content c and its
\* label
WordsOf(c) == IF c % 2 = 1 THEN 8 ELSE 60

\* a classifier whose result carries a key of its own named "id"
classifyWithId(c) ==
  [label |-> IF WordsOf(c) < short_threshold THEN "short" ELSE "long",
   words |-> WordsOf(c),
   id |-> <<>>]

classify(c) ==
  [label |-> IF WordsOf(c) < short_threshold THEN "short" ELSE "long",
   words |-> WordsOf(c)]

\* {**a, **b}: the keys of both, b's value where both have the key
DictMerge(a, b) ==
  [k \in DOMAIN a \cup DOMAIN b |-> IF k \in DOMAIN b THEN b[k] ELSE a[k]]

\* lines 130-134: the record built for a classified file:
\* {"id": file_hash, "path": str(path), **classification_result}
result_record(file_hash, path, cls) ==
  DictMerge([id |-> file_hash, path |-> path], cls)

\* the operations parse and classify may turn out to be: they raise
\* Exception subclasses only
TaskOperations ==
  {o \in Operations :
     o.kind \in DefaultExceptions /\ o.last \in {"ok"} \cup DefaultExceptions}

\* discover.discover(input_dir): the supported files under the input root;
\* lines 33-35: nothing when the root does not exist or is no directory
discover(input_dir) == IF input_dir = "usable" THEN Paths ELSE {}

\* the configurations a run is started with: load_config converts the
\* values and tests none of them
Configs ==
  [workers : {0, NThreads},
   rate_limit_per_sec : {0, PipelineRate},
   input_dir : {"usable", "missing"}]

DefaultConfig ==
  [workers |-> NThreads, rate_limit_per_sec |-> PipelineRate,
   input_dir |-> "usable"]

\* Pipeline.__init__, lines 52-62: ProcessPoolExecutor(max_workers) and
\* RateLimiter(rate_per_sec) raise ValueError for a value <= 0
ConstructorRaises(cfg) == cfg.workers <= 0 \/ cfg.rate_limit_per_sec <= 0

\* the input sets: which files have the same bytes as which, up to renaming
\* files and contents (the first file has content 1, each further file
\* the content of the file before it or the next new content)
InputSets ==
  {c \in [Paths -> Contents] :
     c[1] = 1 /\ \A p \in Paths \ {1} : c[p] \in {c[p - 1], c[p - 1] + 1}}

\* futures the collection loop has finished with
Handled == {f[1] : f \in failed} \cup marked

\* the Pipeline processes that run at the same time
Procs == 1..2

\* run() in a process that has not started
ProcIdle ==
  [phase |-> "idle", loaded |-> {}, processed |-> {}, to_process |-> {},
   futures |-> {}, cur |-> {}, step |-> None, handled |-> {}, written |-> {}]

EnvIdle ==
  /\ fate = [path \in Paths |-> "ok"]
  /\ procs = [r \in Procs |-> ProcIdle]

PipeIdle ==
  /\ phase = "idle"
  /\ runNo = 0
  /\ to_process = {}
  /\ futures = {}
  /\ cur = {}
  /\ step = None
  /\ failed = {}
  /\ written = {}
  /\ marked = {}
  /\ startProcessed = {}
  /\ poolShutdown = FALSE
  /\ prevClean = FALSE
  /\ prevRan = FALSE
  /\ acquires = 0

Submitted == {f[1] : f \in futures}

\* Pipeline(cfg) and the head of run(), lines 52-83 and 96-103: a new
\* process loads the ledger, builds a limiter with capacity = rate and
\* lists the input files; the process's monotonic clock is read relative
\* to its start
StartRun ==
  /\ phase \in {"idle", "complete", "raised", "exited"}
  /\ runNo < MaxRuns
  /\ runNo' = runNo + 1
  /\ futures' = {}
  /\ cur' = {}
  /\ step' = None
  /\ failed' = {}
  /\ written' = {}
  /\ marked' = {}
  /\ poolShutdown' = FALSE
  /\ acquires' = 0
  /\ prevRan' = (phase = "complete")
  /\ prevClean' = (phase = "complete" /\ failed = {})
  /\ now' = 0
  /\ IF ConstructorRaises(config)
     THEN /\ phase' = "raised"
          /\ limiter' = IF config.workers <= 0 THEN "none" ELSE "ValueError"
          /\ to_process' = {}
          /\ UNCHANGED <<processed, loaded, startProcessed, rate, capacity,
                         tokens, last_checked, t0>>
     ELSE /\ processed' = LoadLedger(ledger)
          /\ loaded' = processed'
          /\ startProcessed' = processed'
          /\ rate' = config.rate_limit_per_sec
          /\ capacity' = LimiterCapacity(rate', rate' * Unit, TRUE)
          /\ tokens' = capacity'
          /\ last_checked' = now'
          /\ t0' = now'
          /\ limiter' = "ok"
          /\ to_process' = discover(config.input_dir)
          /\ phase' = "submitting"
  /\ UNCHANGED <<fileVars, ckLock, cpc, carg, ccalls, appended, returned,
                 retryVars, writeVars, benchVars, envVars, rlLock, lpc, wake, lcalls, acquired, callers,
                 config>>

\* lines 104-111: the next candidate's fingerprint is in the set, skip it
Skip(path) ==
  /\ phase = "submitting"
  /\ cur = {}
  /\ path \in to_process
  /\ is_processed(processed, hash_file(content[path]))
  /\ to_process' = to_process \ {path}
  /\ UNCHANGED <<fileVars, ckVars, retryVars, writeVars, benchVars, envVars, rlVars, phase, runNo,
                 futures, cur, step, failed, written,
                 marked, startProcessed, poolShutdown, prevClean, prevRan, config,
                 acquires>>

\* lines 104-113: fingerprint the next candidate, find it not checkpointed
\* and call rate_limiter.acquire(), which sleeps when the bucket is empty
\* and returns with a token taken
Acquire(path) ==
  /\ phase = "submitting"
  /\ cur = {}
  /\ path \in to_process
  /\ LET file_hash == hash_file(content[path])
         a == AcquireAlone(tokens, capacity, rate, last_checked, now)
     IN /\ ~is_processed(processed, file_hash)
        /\ tokens' = a.tokens
        /\ now' = a.now
        /\ last_checked' = a.now
        /\ acquires' = acquires + 1
  /\ to_process' = to_process \ {path}
  /\ cur' = {path}
  /\ step' = "submit"
  /\ UNCHANGED <<fileVars, ckVars, retryVars, writeVars, benchVars, envVars, rate, capacity, rlLock, lpc,
                 wake, lcalls, acquired, callers, limiter, t0, phase, runNo,
                 futures, failed, written, marked,
                 startProcessed, poolShutdown, prevClean, prevRan, config>>

\* lines 114-116: acquire() has returned; submit the parse task to the pool
\* and keep its future with (path, file_hash)
Submit(path) ==
  /\ phase = "submitting"
  /\ cur = {path}
  /\ step = "submit"
  /\ futures' = futures \cup {<<path, hash_file(content[path])>>}
  /\ cur' = {}
  /\ step' = None
  /\ UNCHANGED <<fileVars, ckVars, retryVars, writeVars, benchVars, envVars, rlVars, phase, runNo,
                 to_process, failed, written, marked, startProcessed,
                 poolShutdown, prevClean, prevRan, config, acquires>>

\* run() has no try/finally around its loops: an exception that leaves it
\* skips pool.shutdown (line 163)
ShutdownOnRaiseAlways(done) == TRUE

ShutdownOnRaise(done) == done

\* line 105: hash_file raises OSError (the file vanished or cannot be
\* read); the call is not wrapped by retry, and nothing in run() or in
\* main.py catches it: the loop is abandoned, the tasks submitted so far
\* stay in the pool and nobody takes their results
HashError ==
  /\ phase = "submitting"
  /\ cur = {}
  /\ to_process /= {}
  /\ phase' = "raised"
  /\ to_process' = {}
  /\ poolShutdown' = ShutdownOnRaise(poolShutdown)
  /\ UNCHANGED <<fileVars, ckVars, retryVars, writeVars, benchVars, envVars, rlVars, runNo,
                 futures, cur, step, failed, written, marked,
                 startProcessed, prevClean, prevRan, config, acquires>>

\* "for path in to_process": the loop ends when every candidate was visited
SubmissionOverAlways(todo) == TRUE

SubmissionOver(todo) == todo = {}

\* line 121: the submission loop is over
EndSubmit ==
  /\ phase = "submitting"
  /\ cur = {}
  /\ SubmissionOver(to_process)
  /\ phase' = "awaiting"
  /\ UNCHANGED <<fileVars, ckVars, retryVars, writeVars, benchVars, envVars, rlVars, runNo, to_process,
                 futures, cur, step, failed, written, marked,
                 startProcessed, poolShutdown, prevClean, prevRan, config,
                 acquires>>

\* the except clause, lines 148-155: the error is counted and logged and
\* the loop goes on with the next future
AfterFailureReraise(ph) == "raised"

AfterFailure(ph) == ph

\* the hash stored in futures for a submitted path
HashOfTask(path) == (CHOOSE f \in futures : f[1] = path)[2]

\* what a wrapped pipeline stage may end with: "ok" or the exception class
\* the wrapper raised
StageResults ==
  {wrapper(o, PipelineRetries, DefaultExceptions).result : o \in TaskOperations}

\* lines 135-138: the statement that follows the building of the record:
\* write_result, and mark_processed only after it
StepAfterClassifyMark == "mark"

StepAfterClassify == "write"

\* lines 123-134: a pool worker finishes parse_with_retry(path) and
\* as_completed yields its future; future.result() raises what the task
\* raised, else the text is classified (with retry) and the record is built
TakeResult(path, parsed, cls) ==
  /\ phase = "awaiting"
  /\ cur = {}
  /\ path \in Submitted \ Handled
  /\ IF parsed /= "ok"
     THEN /\ failed' = failed \cup {<<path, "parse">>}
          /\ phase' = AfterFailure(phase)
          /\ UNCHANGED <<cur, step>>
     ELSE IF cls /= "ok"
     THEN /\ failed' = failed \cup {<<path, "classify">>}
          /\ phase' = AfterFailure(phase)
          /\ UNCHANGED <<cur, step>>
     ELSE /\ cur' = {path}
          /\ step' = StepAfterClassify
          /\ UNCHANGED <<failed, phase>>
  /\ UNCHANGED <<fileVars, ckVars, retryVars, writeVars, benchVars, envVars, rlVars, runNo, to_process,
                 futures, written, marked, startProcessed,
                 poolShutdown, prevClean, prevRan, config, acquires>>

\* write.py line 38, open("a"): what the file holds once it is open
open_truncate(file) == EmptyBag

open_append(file) == file

\* write.write_result: one more line, the record's, in the output file
write_resultTwice(file, record) == file (+) SetToBag({record}) (+) SetToBag({record})

write_result(file, record) == open_append(file) (+) SetToBag({record})

\* line 136: write_result appends the record's line to the output file
Write ==
  /\ phase = "awaiting"
  /\ step = "write"
  /\ \E path \in cur :
       /\ output' = write_result(output,
                      result_record(HashOfTask(path), path, classify(content[path])))
       /\ written' = written \cup {path}
  /\ step' = "mark"
  /\ UNCHANGED <<ledger, content, ckVars, retryVars, writeVars, benchVars, envVars, rlVars, phase, runNo,
                 to_process, futures, cur, failed, marked,
                 startProcessed, poolShutdown, prevClean, prevRan, config,
                 acquires>>

\* line 136: write_result raises OSError; the except clause handles it
WriteFail ==
  /\ phase = "awaiting"
  /\ step = "write"
  /\ failed' = failed \cup {<<path, "write">> : path \in cur}
  /\ phase' = AfterFailure(phase)
  /\ cur' = {}
  /\ step' = None
  /\ UNCHANGED <<fileVars, ckVars, retryVars, writeVars, benchVars, envVars, rlVars, runNo, to_process,
                 futures, written, marked, startProcessed,
                 poolShutdown, prevClean, prevRan, config, acquires>>

\* line 138: mark_processed(file_hash), called by the only thread of run()
Mark ==
  /\ phase = "awaiting"
  /\ step = "mark"
  /\ \E path \in cur :
       LET file_hash == HashOfTask(path)
       IN /\ IF MarkNeeded(processed, file_hash)
             THEN /\ ledger' = LedgerAppend(ledger, file_hash)
                  /\ processed' = processed \cup {file_hash}
             ELSE UNCHANGED <<ledger, processed>>
          /\ marked' = marked \cup {path}
  /\ cur' = {}
  /\ step' = None
  /\ UNCHANGED <<output, content, ckLock, cpc, carg, ccalls, loaded,
                 appended, returned, retryVars, writeVars, benchVars, envVars, rlVars, phase, runNo,
                 to_process, futures, failed, written,
                 startProcessed, poolShutdown, prevClean, prevRan, config,
                 acquires>>

\* line 138: the append inside mark_processed raises OSError; the except
\* clause handles it
MarkFail ==
  /\ phase = "awaiting"
  /\ step = "mark"
  /\ \E path \in cur : MarkNeeded(processed, HashOfTask(path))
  /\ failed' = failed \cup {<<path, "mark">> : path \in cur}
  /\ phase' = AfterFailure(phase)
  /\ cur' = {}
  /\ step' = None
  /\ UNCHANGED <<fileVars, ckVars, retryVars, writeVars, benchVars, envVars, rlVars, runNo, to_process,
                 futures, written, marked, startProcessed,
                 poolShutdown, prevClean, prevRan, config, acquires>>

\* lines 162-168: every future has been handled; the pool is shut down and
\* the completion event is logged
Finish ==
  /\ phase = "awaiting"
  /\ cur = {}
  /\ Submitted \subseteq Handled
  /\ poolShutdown' = TRUE
  /\ phase' = "complete"
  /\ UNCHANGED <<fileVars, ckVars, retryVars, writeVars, benchVars, envVars, rlVars, runNo, to_process,
                 futures, cur, step, failed, written, marked,
                 startProcessed, prevClean, prevRan, config, acquires>>

\* the submitted tasks whose result run() has not taken: queued, running or
\* finished in the pool
InPool == {f \in futures : f[1] \notin Handled \cup cur}

\* KeyboardInterrupt (main.py lines 64-68) at any statement of run(): it is
\* not an Exception, so no handler of run() stops it and run() is left
\* (line 163, pool.shutdown, is not reached); main.py turns it into
\* typer.Exit(1). The tasks in the pool stay there
Interrupt ==
  /\ phase \in {"submitting", "awaiting"}
  /\ phase' = "interrupted"
  /\ futures' = InPool
  /\ to_process' = {}
  /\ cur' = {}
  /\ step' = None
  /\ failed' = {}
  /\ written' = {}
  /\ marked' = {}
  /\ acquires' = 0
  /\ tokens' = capacity
  /\ now' = 0
  /\ last_checked' = 0
  /\ UNCHANGED <<fileVars, ckVars, retryVars, writeVars, benchVars, envVars, rate, capacity,
                 rlLock, lpc, wake, lcalls, acquired, callers, limiter, t0,
                 runNo, startProcessed, poolShutdown, prevClean, prevRan,
                 config>>

\* a pool worker ends a task of the interrupted run; nobody takes its result
TaskEnds(path) ==
  /\ phase = "interrupted"
  /\ path \in Submitted
  /\ futures' = {f \in futures : f[1] /= path}
  /\ UNCHANGED <<fileVars, ckVars, retryVars, rlVars, writeVars, benchVars, envVars, phase, runNo,
                 to_process, cur, step, failed, written, marked,
                 startProcessed, poolShutdown, prevClean, prevRan, config,
                 acquires>>

\* interpreter exit with a ProcessPoolExecutor alive: the program does not
\* exit until all pending futures are done executing
ExitAllowedAlways(pool) == TRUE

ExitAllowed(pool) == pool = {}

\* main.py line 68: the process exits with code 1
Exit ==
  /\ phase = "interrupted"
  /\ ExitAllowed(futures)
  /\ phase' = "exited"
  /\ UNCHANGED <<fileVars, ckVars, retryVars, rlVars, writeVars, benchVars, envVars, runNo,
                 to_process, futures, cur, step, failed, written, marked,
                 startProcessed, poolShutdown, prevClean, prevRan, config,
                 acquires>>

\* --------------------------------------------------------- completion order
\* what is in store for the task of a path: it succeeds, or its parse or
\* classify raises after the retries, or the write of its record or the
\* append of its fingerprint to the ledger raises
Fates == {"ok", "parse", "classify", "write", "mark"}

\* one run whose tasks end as fate says, in any order of completion
OrderStart ==
  /\ runNo = 0
  /\ StartRun

OrderTake(path) ==
  TakeResult(path,
             IF fate[path] = "parse" THEN "OSError" ELSE "ok",
             IF fate[path] = "classify" THEN "OSError" ELSE "ok")

OrderWrite ==
  /\ \A path \in cur : fate[path] /= "write"
  /\ Write

OrderWriteFail ==
  /\ \E path \in cur : fate[path] = "write"
  /\ WriteFail

\* mark_processed opens the ledger only for a fingerprint that is not in
\* the set; without the append nothing can fail
OrderMark ==
  /\ phase = "awaiting"
  /\ step = "mark"
  /\ \A path \in cur :
       fate[path] /= "mark" \/ ~MarkNeeded(processed, HashOfTask(path))
  /\ Mark

OrderMarkFail ==
  /\ \E path \in cur : fate[path] = "mark"
  /\ MarkFail

OrderNext ==
  \/ OrderStart
  \/ \E path \in Paths : Skip(path)
  \/ \E path \in Paths : Acquire(path)
  \/ \E path \in Paths : Submit(path)
  \/ EndSubmit
  \/ \E path \in Paths : OrderTake(path)
  \/ OrderWrite
  \/ OrderWriteFail
  \/ OrderMark
  \/ OrderMarkFail
  \/ Finish

\* ---------------------------------------------- run() inside mark_processed
\* the thread of run(), the only caller of mark_processed in a run
MainThread == 1

\* checkpoints.py lines 52-54: the append raised before line 54 was
\* reached; what the in-memory set is then
SetAfterFailedAppendAdds(set, file_hash) == set \cup {file_hash}

SetAfterFailedAppend(set, file_hash) == set

\* pipeline.py line 138: run() calls mark_processed(file_hash)
RunMarkCall ==
  /\ phase = "awaiting"
  /\ step = "mark"
  /\ cpc[MainThread] = "idle"
  /\ \E path \in cur :
       carg' = [carg EXCEPT ![MainThread] = HashOfTask(path)]
  /\ cpc' = [cpc EXCEPT ![MainThread] = "lock"]
  /\ step' = "marking"
  /\ UNCHANGED <<fileVars, processed, ckLock, ccalls, loaded, appended, returned,
                 retryVars, writeVars, benchVars, envVars, rlVars, phase, runNo,
                 to_process, futures, cur, failed, written, marked,
                 startProcessed, poolShutdown, prevClean, prevRan, config,
                 acquires>>

\* mark_processed returns (the with-block releases the lock) and the loop
\* body goes on to the log lines 139-147
RunMarkReturn ==
  /\ phase = "awaiting"
  /\ step = "marking"
  /\ cpc[MainThread] = "unlock"
  /\ ckLock' = {}
  /\ cpc' = [cpc EXCEPT ![MainThread] = "idle"]
  /\ returned' = returned \cup {carg[MainThread]}
  /\ marked' = marked \cup cur
  /\ cur' = {}
  /\ step' = None
  /\ UNCHANGED <<fileVars, processed, carg, ccalls, loaded, appended,
                 retryVars, writeVars, benchVars, envVars, rlVars, phase, runNo,
                 to_process, futures, failed, written,
                 startProcessed, poolShutdown, prevClean, prevRan, config,
                 acquires>>

\* checkpoints.py lines 52-53 raise OSError: the with-block releases the
\* lock, the exception leaves mark_processed and the except clause of
\* run() (pipeline.py lines 148-155) counts a failure
RunMarkRaise ==
  /\ phase = "awaiting"
  /\ step = "marking"
  /\ cpc[MainThread] = "append"
  /\ ckLock' = {}
  /\ cpc' = [cpc EXCEPT ![MainThread] = "idle"]
  /\ processed' = SetAfterFailedAppend(processed, carg[MainThread])
  /\ failed' = failed \cup {<<path, "mark">> : path \in cur}
  /\ phase' = AfterFailure(phase)
  /\ cur' = {}
  /\ step' = None
  /\ UNCHANGED <<fileVars, carg, ccalls, loaded, appended, returned,
                 retryVars, writeVars, benchVars, envVars, rlVars, runNo,
                 to_process, futures, written, marked,
                 startProcessed, poolShutdown, prevClean, prevRan, config,
                 acquires>>

\* runs in which mark_processed is taken statement by statement
MarkNext ==
  \/ StartRun
  \/ \E path \in Paths : Skip(path)
  \/ \E path \in Paths : Acquire(path)
  \/ \E path \in Paths : Submit(path)
  \/ EndSubmit
  \/ \E path \in Paths, parsed \in StageResults, cls \in StageResults :
       TakeResult(path, parsed, cls)
  \/ Write
  \/ WriteFail
  \/ RunMarkCall
  \/ CkLock(MainThread)
  \/ CkCheck(MainThread)
  \/ CkAppend(MainThread)
  \/ CkAdd(MainThread)
  \/ RunMarkReturn
  \/ RunMarkRaise
  \/ Finish

\* ------------------------------------------------------------ two processes
\* the set is_processed and mark_processed of a process consult: its own
\* self.checkpoints.processed, never the ledger file
SeenByNobody(proc) == {}

SeenBy(proc) == proc.processed

\* Pipeline(cfg) and lines 96-103 in process r: it loads the ledger as it
\* is now and lists the input files
P2Start(r) ==
  /\ procs[r].phase = "idle"
  /\ procs' = [procs EXCEPT ![r] =
                 [@ EXCEPT !.phase = "submitting",
                           !.loaded = LoadLedger(ledger),
                           !.processed = LoadLedger(ledger),
                           !.to_process = discover(config.input_dir)]]
  /\ UNCHANGED <<fate, fileVars, ckVars, pipeVars, retryVars, rlVars, writeVars, benchVars>>

\* lines 104-111 in process r: the candidate is in its set, skip it
P2Skip(r, path) ==
  /\ procs[r].phase = "submitting"
  /\ path \in procs[r].to_process
  /\ is_processed(SeenBy(procs[r]), hash_file(content[path]))
  /\ procs' = [procs EXCEPT ![r].to_process = @ \ {path}]
  /\ UNCHANGED <<fate, fileVars, ckVars, pipeVars, retryVars, rlVars, writeVars, benchVars>>

\* lines 104-116 in process r: the candidate is not in its set; a token of
\* the process's own limiter is acquired and the task is submitted
P2Submit(r, path) ==
  /\ procs[r].phase = "submitting"
  /\ path \in procs[r].to_process
  /\ ~is_processed(SeenBy(procs[r]), hash_file(content[path]))
  /\ procs' = [procs EXCEPT ![r].to_process = @ \ {path},
                            ![r].futures = @ \cup {<<path, hash_file(content[path])>>}]
  /\ UNCHANGED <<fate, fileVars, ckVars, pipeVars, retryVars, rlVars, writeVars, benchVars>>

\* line 121 in process r
P2EndSubmit(r) ==
  /\ procs[r].phase = "submitting"
  /\ SubmissionOver(procs[r].to_process)
  /\ procs' = [procs EXCEPT ![r].phase = "awaiting"]
  /\ UNCHANGED <<fate, fileVars, ckVars, pipeVars, retryVars, rlVars, writeVars, benchVars>>

\* lines 123-134 in process r: a task completed, its text was classified
\* and its record built; or parse or classify raised and the except clause
\* handled it
P2Take(r, path, parsed, cls) ==
  /\ procs[r].phase = "awaiting"
  /\ procs[r].cur = {}
  /\ path \in {f[1] : f \in procs[r].futures} \ procs[r].handled
  /\ procs' = [procs EXCEPT ![r] =
                 IF parsed = "ok" /\ cls = "ok"
                 THEN [@ EXCEPT !.cur = {path}, !.step = StepAfterClassify]
                 ELSE [@ EXCEPT !.handled = @ \cup {path}]]
  /\ UNCHANGED <<fate, fileVars, ckVars, pipeVars, retryVars, rlVars, writeVars, benchVars>>

\* line 136 in process r: the record is appended to the shared output file
P2Write(r) ==
  /\ procs[r].phase = "awaiting"
  /\ procs[r].step = "write"
  /\ \E path \in procs[r].cur :
       /\ output' = write_result(output,
                      result_record(hash_file(content[path]), path,
                                    classify(content[path])))
       /\ procs' = [procs EXCEPT ![r].step = "mark",
                                 ![r].written = @ \cup {path}]
  /\ UNCHANGED <<fate, ledger, content, ckVars, pipeVars, retryVars, rlVars, writeVars, benchVars>>

\* line 138 in process r: mark_processed appends to the shared ledger file
\* when the fingerprint is not in the process's set
P2Mark(r) ==
  /\ procs[r].phase = "awaiting"
  /\ procs[r].step = "mark"
  /\ \E path \in procs[r].cur :
       LET file_hash == hash_file(content[path])
       IN /\ ledger' = IF MarkNeeded(SeenBy(procs[r]), file_hash)
                       THEN LedgerAppend(ledger, file_hash)
                       ELSE ledger
          /\ procs' = [procs EXCEPT ![r].processed = @ \cup {file_hash},
                                    ![r].handled = @ \cup {path},
                                    ![r].cur = {},
                                    ![r].step = None]
  /\ UNCHANGED <<fate, output, content, ckVars, pipeVars, retryVars, rlVars, writeVars, benchVars>>

\* lines 162-168 in process r
P2Finish(r) ==
  /\ procs[r].phase = "awaiting"
  /\ procs[r].cur = {}
  /\ {f[1] : f \in procs[r].futures} \subseteq procs[r].handled
  /\ procs' = [procs EXCEPT ![r].phase = "complete"]
  /\ UNCHANGED <<fate, fileVars, ckVars, pipeVars, retryVars, rlVars, writeVars, benchVars>>

TwoNext ==
  \/ \E r \in Procs : P2Start(r)
  \/ \E r \in Procs, path \in Paths : P2Skip(r, path)
  \/ \E r \in Procs, path \in Paths : P2Submit(r, path)
  \/ \E r \in Procs : P2EndSubmit(r)
  \/ \E r \in Procs, path \in Paths, parsed \in StageResults, cls \in StageResults :
       P2Take(r, path, parsed, cls)
  \/ \E r \in Procs : P2Write(r)
  \/ \E r \in Procs : P2Mark(r)
  \/ \E r \in Procs : P2Finish(r)

\* ----------------------------------------------------------- Pipeline.bench
MaxSamples == 22
MaxLatency == 2

\* the durations time.perf_counter() may measure for one sample
Latencies == 1..MaxLatency

\* line 194: the sample count from which the percentile is computed
p95_min_samples == 20

\* sorted(latencies): the values in ascending order
RECURSIVE sorted(_)
sorted(bag) ==
  IF BagToSet(bag) = {} THEN <<>>
  ELSE LET least == CHOOSE x \in BagToSet(bag) : \A y \in BagToSet(bag) : x <= y
       IN <<least>> \o sorted(bag (-) SetToBag({least}))

\* max(latencies)
MaxOf(bag) == CHOOSE x \in BagToSet(bag) : \A y \in BagToSet(bag) : y <= x

\* line 196: "index = int(0.95 * len(sorted_latencies)) - 1", an index
\* counted from 0; int() truncates, and 0.95 * n computed in floating point
\* truncates to floor(95 n / 100) for every n the model reaches
PercentileIndex(n) == ((95 * n) \div 100) - 1

\* lines 193-201: the 95th percentile bench reports
Percentile95(bag) ==
  LET n == BagCardinality(bag)
      index == PercentileIndex(n)
  IN IF n = 0 THEN 0
     ELSE IF n >= p95_min_samples
          THEN sorted(bag)[(IF index > 0 THEN index ELSE 0) + 1]
          ELSE MaxOf(bag)

\* "for _ in range(n)": the loop is over after n passes
LoopDoneEarly(i, n) == i + 1 >= n

LoopDone(i, n) == i >= n

BenchIdle ==
  /\ bpc = "idle"
  /\ bn = 0
  /\ latencies = EmptyBag
  /\ bcalls = 0
  /\ p95 = {}

\* lines 179-183: bench(n) is called
BenchStart(n) ==
  /\ bpc = "idle"
  /\ bn' = n
  /\ bpc' = "loop"
  /\ latencies' = EmptyBag
  /\ bcalls' = 0
  /\ p95' = {}
  /\ UNCHANGED <<fileVars, ckVars, pipeVars, retryVars, rlVars, writeVars, envVars>>

\* lines 184-189: one pass of the loop: classify_with_retry(dummy_text)
\* returns and its duration d is appended to latencies
BenchSample(d) ==
  /\ bpc = "loop"
  /\ ~LoopDone(BagCardinality(latencies), bn)
  /\ bcalls' = bcalls + 1
  /\ latencies' = latencies (+) SetToBag({d})
  /\ UNCHANGED <<bpc, bn, p95>>
  /\ UNCHANGED <<fileVars, ckVars, pipeVars, retryVars, rlVars, writeVars, envVars>>

\* line 187: classify_with_retry raises; bench has no handler
BenchSampleFails(cls) ==
  /\ bpc = "loop"
  /\ ~LoopDone(BagCardinality(latencies), bn)
  /\ cls /= "ok"
  /\ bcalls' = bcalls + 1
  /\ bpc' = "raised"
  /\ UNCHANGED <<bn, latencies, p95>>
  /\ UNCHANGED <<fileVars, ckVars, pipeVars, retryVars, rlVars, writeVars, envVars>>

\* lines 190-206: the loop is over, the percentile is computed and logged
BenchReport ==
  /\ bpc = "loop"
  /\ LoopDone(BagCardinality(latencies), bn)
  /\ p95' = {Percentile95(latencies)}
  /\ bpc' = "done"
  /\ UNCHANGED <<bn, latencies, bcalls>>
  /\ UNCHANGED <<fileVars, ckVars, pipeVars, retryVars, rlVars, writeVars, envVars>>

BenchNext ==
  \/ \E n \in 0..MaxSamples : BenchStart(n)
  \/ \E d \in Latencies : BenchSample(d)
  \/ \E cls \in StageResults : BenchSampleFails(cls)
  \/ BenchReport

Next ==
  \/ StartRun
  \/ \E path \in Paths : Skip(path)
  \/ \E path \in Paths : Acquire(path)
  \/ \E path \in Paths : Submit(path)
  \/ HashError
  \/ EndSubmit
  \/ \E path \in Paths, parsed \in StageResults, cls \in StageResults :
       TakeResult(path, parsed, cls)
  \/ Write
  \/ WriteFail
  \/ Mark
  \/ MarkFail
  \/ Finish
  \/ Interrupt
  \/ \E path \in Paths : TaskEnds(path)
  \/ Exit

\* ------------------------------------------------------------ specifications
Init ==
  /\ ledger = <<>>
  /\ output = EmptyBag
  /\ content \in InputSets
  /\ processed = {}
  /\ loaded = {}
  /\ CkIdle
  /\ WriteIdle
  /\ BenchIdle
  /\ EnvIdle
  /\ PipeIdle
  /\ config \in Configs
  /\ RetryIdle
  /\ RLIdle

Spec == Init /\ [][Next]_vars

InitCkpt ==
  /\ ledger \in InitLedgers
  /\ output = EmptyBag
  /\ content = [p \in Paths |-> 1]
  /\ processed = LoadLedger(ledger)
  /\ loaded = processed
  /\ CkIdle
  /\ WriteIdle
  /\ BenchIdle
  /\ EnvIdle
  /\ PipeIdle
  /\ config = DefaultConfig
  /\ RetryIdle
  /\ RLIdle

SpecCkpt == InitCkpt /\ [][CkNext]_vars

\* threads that write results through one lock to an empty output file
InitWrite ==
  /\ ledger = <<>>
  /\ output = EmptyBag
  /\ content = [p \in Paths |-> 1]
  /\ processed = {}
  /\ loaded = {}
  /\ CkIdle
  /\ WriteIdle
  /\ BenchIdle
  /\ EnvIdle
  /\ PipeIdle
  /\ config = DefaultConfig
  /\ RetryIdle
  /\ RLIdle

SpecWrite == InitWrite /\ [][WriteNext]_vars

\* any file at the ledger's path, no manager yet
InitCkptLoad ==
  /\ ledger \in LedgerFiles
  /\ output = EmptyBag
  /\ content = [p \in Paths |-> 1]
  /\ processed = {}
  /\ loaded = {}
  /\ CkIdle
  /\ WriteIdle
  /\ BenchIdle
  /\ EnvIdle
  /\ PipeIdle
  /\ config = DefaultConfig
  /\ RetryIdle
  /\ RLIdle

SpecCkptLoad == InitCkptLoad /\ [][CkNew]_vars

InitRetry ==
  /\ ledger = <<>>
  /\ output = EmptyBag
  /\ content = [p \in Paths |-> 1]
  /\ processed = {}
  /\ loaded = {}
  /\ CkIdle
  /\ WriteIdle
  /\ BenchIdle
  /\ EnvIdle
  /\ PipeIdle
  /\ config = DefaultConfig
  /\ SpecRetryInit
  /\ RLIdle

SpecRetry == InitRetry /\ [][RetryNext]_vars

InitRL ==
  /\ ledger = <<>>
  /\ output = EmptyBag
  /\ content = [p \in Paths |-> 1]
  /\ processed = {}
  /\ loaded = {}
  /\ CkIdle
  /\ WriteIdle
  /\ BenchIdle
  /\ EnvIdle
  /\ PipeIdle
  /\ config = DefaultConfig
  /\ RetryIdle
  /\ SpecRLInit

SpecRL == InitRL /\ [][RLNext]_vars

\* the steps of thread t inside acquire()
RLStep(t) ==
  \/ RLLock(t)
  \/ RLRefill(t)
  \/ RLWake(t)
  \/ RLRelock(t)
  \/ RLConsume(t)

\* the scheduler runs every thread that can take a step (a lock that is
\* free is eventually taken by a thread waiting for it) and the clock
\* advances; calling acquire() is up to the caller
RLFairness ==
  /\ \A t \in Threads : WF_vars(RLStep(t))
  /\ WF_vars(Tick)

\* no limiter yet; one thread will use it
InitRLNew ==
  /\ ledger = <<>>
  /\ output = EmptyBag
  /\ content = [p \in Paths |-> 1]
  /\ processed = {}
  /\ loaded = {}
  /\ CkIdle
  /\ WriteIdle
  /\ BenchIdle
  /\ EnvIdle
  /\ PipeIdle
  /\ config = DefaultConfig
  /\ RetryIdle
  /\ rate = 1
  /\ capacity = Unit
  /\ tokens = Unit
  /\ last_checked = 0
  /\ now = 0
  /\ rlLock = {}
  /\ lpc = [t \in Threads |-> "idle"]
  /\ wake = [t \in Threads |-> 0]
  /\ lcalls = 0
  /\ acquired = 0
  /\ callers = 1
  /\ t0 = 0
  /\ limiter = "none"

SpecRLNew == InitRLNew /\ [][RLNewNext]_vars

SpecRLExc == InitRL /\ [][RLExcNext]_vars

\* limiters whose bucket can hold a whole token
InitRLFair == InitRL /\ capacity >= Unit

SpecRLFair == InitRLFair /\ [][RLNext]_vars /\ RLFairness

\* one run over an empty output file, with the ledger of an earlier run or
\* none, and a fate for each file
InitOrder ==
  /\ ledger \in {<<>>, LedgerLine(hash_file(1))}
  /\ output = EmptyBag
  /\ content \in InputSets
  /\ processed = {}
  /\ loaded = {}
  /\ CkIdle
  /\ WriteIdle
  /\ BenchIdle
  /\ fate \in [Paths -> Fates]
  /\ procs = [r \in Procs |-> ProcIdle]
  /\ PipeIdle
  /\ config = DefaultConfig
  /\ RetryIdle
  /\ RLIdle

SpecOrder == InitOrder /\ [][OrderNext]_vars

\* runs of the default configuration over an empty ledger and output file
InitMark ==
  /\ ledger = <<>>
  /\ output = EmptyBag
  /\ content \in InputSets
  /\ processed = {}
  /\ loaded = {}
  /\ CkIdle
  /\ WriteIdle
  /\ BenchIdle
  /\ EnvIdle
  /\ PipeIdle
  /\ config = DefaultConfig
  /\ RetryIdle
  /\ RLIdle

SpecMark == InitMark /\ [][MarkNext]_vars

\* two processes about to run over the same files, ledger and output file
InitTwo ==
  /\ ledger = <<>>
  /\ output = EmptyBag
  /\ content \in InputSets
  /\ processed = {}
  /\ loaded = {}
  /\ CkIdle
  /\ WriteIdle
  /\ BenchIdle
  /\ EnvIdle
  /\ PipeIdle
  /\ config = DefaultConfig
  /\ RetryIdle
  /\ RLIdle

SpecTwo == InitTwo /\ [][TwoNext]_vars

\* a Pipeline built on the ledger of earlier runs, about to run bench(n):
\* the manager has loaded the ledger, the limiter is full, the pool is empty
InitBench ==
  /\ ledger \in InitLedgers
  /\ output \in {EmptyBag,
                 SetToBag({result_record(hash_file(1), 1, classify(1))})}
  /\ content = [p \in Paths |-> 1]
  /\ processed = LoadLedger(ledger)
  /\ loaded = processed
  /\ CkIdle
  /\ WriteIdle
  /\ BenchIdle
  /\ EnvIdle
  /\ PipeIdle
  /\ config = DefaultConfig
  /\ RetryIdle
  /\ rate = PipelineRate
  /\ capacity = LimiterCapacity(rate, rate * Unit, TRUE)
  /\ tokens = capacity
  /\ last_checked = 0
  /\ now = 0
  /\ rlLock = {}
  /\ lpc = [t \in Threads |-> "idle"]
  /\ wake = [t \in Threads |-> 0]
  /\ lcalls = 0
  /\ acquired = 0
  /\ callers = 0
  /\ t0 = 0
  /\ limiter = "ok"

SpecBench == InitBench /\ [][BenchNext]_vars

\* ------------------------------------------------------------------ claims
FailedPaths == {f[1] : f \in failed}

\* paths whose parse or classify failed in this run
FailedParseClassify ==
  {f[1] : f \in {g \in failed : g[2] \in {"parse", "classify"}}}

\* number of lines of the output file that record document (id, path)
RecordsOf(id, path) ==
  LET lines == {r \in BagToSet(output) : r.id = id /\ r.path = path}
  IN BagCardinality([r \in lines |-> output[r]])

\* C1: over non-overlapping runs sharing the ledger and the output file,
\* runs that fail or are interrupted at any step included, no document has
\* two records in the output file, and a document that succeeded (was
\* marked) has one.
C1_ExactlyOnce ==
  /\ \A path \in Paths : RecordsOf(hash_file(content[path]), path) <= 1
  /\ \A path \in marked : RecordsOf(hash_file(content[path]), path) = 1

\* C2 as stated: once a first run has run to its end, the next run over the
\* same files and the same ledger appends no record.
C2_SecondRunWritesNothing == prevRan => written = {}

\* C2 amended: if the first run ran to its end and none of its tasks failed,
\* the next run over the same files and the same ledger appends no record.
C2_CleanRunThenNothing == prevClean => written = {}

C2_Witness ==
  /\ prevClean
  /\ phase = "complete"
  /\ output /= EmptyBag
  /\ written = {}

\* within a run: no record was written for a path whose parse or classify
\* failed, and no marked path has its fingerprint
C3_NoMarkNoRecord ==
  \A path \in FailedParseClassify :
    /\ path \notin written
    /\ \A m \in marked : hash_file(content[m]) /= hash_file(content[path])

\* C3: a task whose parse or classify failed (retries exhausted) gets no
\* output record, mark_processed is never called for its fingerprint, and so
\* in the next run its fingerprint is not in the loaded set and the file is
\* submitted again.
C3_FailedStaysEligible ==
  /\ []C3_NoMarkNoRecord
  /\ [][StartRun =>
          \A path \in FailedParseClassify :
            hash_file(content[path]) \notin startProcessed']_vars

\* C4: a per-file failure never aborts the run: no run that handled a
\* failing task is left by an exception, while futures are outstanding the
\* run can always go on, and at completion the pool is shut down and every
\* submitted task that did not fail has its record written and its
\* fingerprint marked.
C4_FailureIsolated ==
  /\ phase = "raised" => failed = {}
  /\ phase = "awaiting" =>
       ENABLED (\/ \E path \in Paths, parsed \in StageResults, cls \in StageResults :
                     TakeResult(path, parsed, cls)
                \/ Write
                \/ Mark
                \/ Finish)
  /\ phase = "complete" =>
       /\ poolShutdown
       /\ \A path \in Submitted \ FailedPaths :
            /\ path \in written
            /\ path \in marked
            /\ RecordsOf(hash_file(content[path]), path) >= 1
            /\ hash_file(content[path]) \in processed

C4_Witness ==
  /\ phase = "complete"
  /\ FailedParseClassify /= {}
  /\ marked /= {}

\* within a run: nothing submitted, in hand, written or marked has a
\* fingerprint that was in the set the run loaded
C5_InRun ==
  /\ \A f \in futures : f[2] \notin startProcessed
  /\ \A path \in cur \cup written \cup marked :
       hash_file(content[path]) \notin startProcessed

\* C5: a candidate whose fingerprint is in the ledger when a run starts is
\* not submitted, classified or written in that run, and the set loaded at
\* the start of a run never loses a fingerprint from one run to the next.
C5_CheckpointedNeverReprocessed ==
  /\ []C5_InRun
  /\ [][startProcessed \subseteq startProcessed']_vars

C5_Witness ==
  /\ runNo >= 2
  /\ phase = "complete"
  /\ \E path \in Paths :
       /\ hash_file(content[path]) \in startProcessed
       /\ path \notin Submitted

\* C6: after mark_processed(h) has returned, a CheckpointManager built anew
\* on the same ledger file reports is_processed(h).
C6_MarkDurable == \A h \in returned : h \in LoadLedger(ledger)

C6_Witness ==
  /\ Len(appended) >= 2
  /\ Range(appended) \subseteq returned
  /\ \A t \in Threads : cpc[t] = "idle"

\* no thread is inside mark_processed
CkQuiescent == \A t \in Threads : cpc[t] = "idle"

\* C7: whatever the interleaving of the threads calling mark_processed, a
\* fingerprint is appended to the ledger file at most once and never when
\* it was loaded, and when no call is in progress the in-memory set is the
\* loaded entries plus exactly the fingerprints appended.
C7_MarkOnce ==
  /\ \A i, j \in 1..Len(appended) : appended[i] = appended[j] => i = j
  /\ Range(appended) \cap loaded = {}
  /\ CkQuiescent => processed = loaded \cup Range(appended)

C7_Witness ==
  /\ CkQuiescent
  /\ ccalls[1] >= 1
  /\ ccalls[2] >= 1
  /\ carg[1] = carg[2]
  /\ carg[1] \in Range(appended)
  /\ carg[1] \in returned

\* C8: with failures the wrapper retries, an operation that fails k <
\* retries times and then succeeds is called k + 1 times and the wrapper
\* returns; an operation that always fails is called retries + 1 times and
\* the wrapper raises.
C8_AttemptCount ==
  (Catches(exceptions, op.kind) /\ rpc \in {"returned", "raised"}) =>
    /\ (~op.always /\ op.k < retries /\ op.last = "ok") =>
         (rpc = "returned" /\ calls = op.k + 1)
    /\ op.always => (rpc = "raised" /\ calls = retries + 1)

C8_Witness ==
  /\ Catches(exceptions, op.kind)
  /\ ~op.always
  /\ op.last = "ok"
  /\ op.k >= 1
  /\ op.k < retries
  /\ rpc = "returned"
  /\ sleeps = op.k

\* C9: N > C sequential acquire() calls of a single caller on a fresh
\* limiter take at least (N - C) / R seconds.
C9_LowerBound ==
  (callers = 1 /\ acquired * Unit > capacity) =>
    (now - t0) * rate >= acquired * Unit - capacity

C9_Witness ==
  /\ callers = 1
  /\ capacity >= Unit
  /\ acquired * Unit > capacity
  /\ acquired >= 2
  /\ now > t0

\* C10: with any number of threads in acquire() and any positive rate and
\* capacity, the token count is never below 0 after a consumption, so at
\* most C + R * t acquisitions complete within t seconds.
C10_TokensNonNegative ==
  /\ tokens >= 0
  /\ acquired * Unit <= capacity + (now - t0) * rate

\* C11: every acquire() call returns under any interleaving of callers, and
\* a caller sleeps at most once per call, until the wake-up time computed
\* from (1 - tokens) / rate at its refill check: a thread goes to sleep only
\* from that check, and once awake it consumes and returns.
C11_AcquireReturns ==
  /\ \A t \in Threads : (lpc[t] /= "idle") ~> (lpc[t] = "idle")
  /\ [][\A t \in Threads :
          /\ (lpc'[t] = "sleep" /\ lpc[t] /= "sleep") =>
                /\ lpc[t] = "refill"
                /\ wake'[t] = now + CeilDiv(Unit - tokens', rate)
          /\ lpc[t] = "relock" => lpc'[t] \in {"relock", "consume"}
          /\ lpc[t] = "consume" => lpc'[t] \in {"consume", "idle"}]_vars

C11_Witness ==
  /\ callers >= 2
  /\ acquired >= 1
  /\ \E t \in Threads : lpc[t] = "consume" /\ tokens < Unit

\* C12: no limiter exists with a non-positive rate or a non-positive
\* capacity: construction with either fails.
C12_PositiveParameters == limiter = "ok" => (rate > 0 /\ capacity > 0)

\* C13: a failure of a class the wrapper does not retry propagates at once,
\* whatever retries is and however many attempts came before: the call that
\* raised it is the last call of the operation, the wrapper has raised, and
\* no sleep followed it (the sleeps are those of the earlier, retried calls).
C13_NonRetryablePropagates ==
  \A n \in 1..calls :
    Outcome(op, n) \notin exceptions \cup {"ok"} =>
      /\ n = calls
      /\ rpc = "raised"
      /\ sleeps = n - 1

C13_Witness ==
  /\ rpc = "raised"
  /\ calls >= 2
  /\ Outcome(op, calls) \notin exceptions
  /\ attempts < retries

\* failures that no later call can cure: invalid input, unsupported or
\* corrupt content
PermanentErrors == {"ValueError"}

\* C14: with the wrappers as Pipeline builds them (no exceptions argument),
\* an operation whose first call fails permanently is called exactly once.
C14_PermanentNotRetried ==
  (/\ exceptions = DefaultExceptions
   /\ rpc \in {"returned", "raised"}
   /\ Outcome(op, 1) \in PermanentErrors) => calls = 1

\* a configuration with a fatal condition: a non-positive worker count or
\* rate limit, an input root that cannot be used
FatalConfig ==
  \/ config.workers <= 0
  \/ config.rate_limit_per_sec <= 0
  \/ config.input_dir /= "usable"

\* C15: a run started with a fatal condition is aborted with a failure
\* before any work: it has raised, and nothing was listed, submitted,
\* written or marked.
C15_FatalAbortsBeforeWork ==
  (runNo >= 1 /\ FatalConfig) =>
    /\ phase = "raised"
    /\ to_process = {}
    /\ futures = {}
    /\ written = {}
    /\ marked = {}

\* a well-formed ledger line: a hex digest, as long as those hash_file
\* returns
WellFormed(line) ==
  /\ Len(line) = Len(hash_file(1))
  /\ \A i \in 1..Len(line) : line[i] \in Range(HexDigits)

\* C16: a manager built on an existing ledger holds no blank entry and no
\* malformed line: every member of its set is a well-formed fingerprint.
C16_MalformedNotAdded ==
  \A line \in processed : line /= <<>> /\ WellFormed(line)

\* C17: in every state, those inside a mark_processed call included (an
\* is_processed call takes no lock and may see any of them), every
\* fingerprint appended to the ledger file is in the in-memory set.
C17_SetCoversLedger == \A h \in Range(appended) : h \in processed

\* the text of whole record lines only: every line is terminated and is
\* the JSON text of a result
WholeLines(text) ==
  LET lines == FileLines(text, <<>>)
  IN \A i \in 1..Len(lines) :
       \E result \in WriteResults : lines[i] = json_dumps(result) \o <<NL>>

\* what the writers inside the with-block have written of their lines
InProgress == {SubSeq(wline[t], 1, wpos[t]) : t \in {u \in Threads : wpc[u] = "write"}}

\* C18: with one lock for all writers, lines are never interleaved: the
\* output file is whole record lines, followed by the written part of the
\* line of the one writer that is writing, if there is one; and what is in
\* the file is never modified or removed.
C18_WholeLines ==
  /\ [](\/ WholeLines(outchars)
        \/ \E part \in InProgress :
             /\ Len(part) <= Len(outchars)
             /\ SubSeq(outchars, Len(outchars) - Len(part) + 1, Len(outchars)) = part
             /\ WholeLines(SubSeq(outchars, 1, Len(outchars) - Len(part))))
  /\ [][/\ Len(outchars') >= Len(outchars)
        /\ SubSeq(outchars', 1, Len(outchars)) = outchars]_vars

C18_Witness ==
  /\ Len(FileLines(outchars, <<>>)) >= 2
  /\ \E t, u \in Threads :
       /\ t /= u
       /\ wpc[t] = "write"
       /\ wpos[t] \in 1..(Len(wline[t]) - 1)
       /\ wpc[u] = "lock"

\* C19: every record in the output file has the fields id, path, label and
\* words; path is a discovered file and id is that file's fingerprint.
C19_RecordFields ==
  \A r \in BagToSet(output) :
    /\ {"id", "path", "label", "words"} \subseteq DOMAIN r
    /\ r.path \in Paths
    /\ r.id = hash_file(content[r.path])
    /\ r.label \in {"short", "long"}
    /\ r.words \in Nat

C19_Witness ==
  \E r1, r2 \in BagToSet(output) : r1.label /= r2.label

FreshDistinctRun ==
  /\ config.input_dir = "usable"
  /\ \A p, q \in Paths : content[p] = content[q] => p = q
  /\ \A p \in Paths : hash_file(content[p]) \notin startProcessed

\* what a completed run over N files leaves behind when each of them
\* succeeded: N records appended, one per file, and exactly the N
\* fingerprints added to the ledger
AllRecorded ==
  /\ written = Paths
  /\ marked = Paths
  /\ \A path \in Paths : RecordsOf(hash_file(content[path]), path) >= 1
  /\ runNo = 1 => BagCardinality(output) = NFiles
  /\ processed = startProcessed \cup {hash_file(content[p]) : p \in Paths}
  /\ LoadLedger(ledger) = processed

\* at completion every submitted task is a success or a per-file failure,
\* never both
SuccessesPlusFailures ==
  /\ marked \cap FailedPaths = {}
  /\ Cardinality(marked) + Cardinality(FailedPaths) = Cardinality(Submitted)

\* the output file changes only by one appended record, of a path the run
\* had not written yet
OneRecordPerWrite ==
  output' /= output =>
    /\ BagCardinality(output') = BagCardinality(output) + 1
    /\ \E path \in Paths \ written : written' = written \cup {path}

\* C21 as stated: a completed run over N distinct, uncheckpointed files in
\* which every parse and classify succeeded has appended N records and added
\* the N fingerprints to the ledger.
C21_AllSucceedAllRecorded ==
  (phase = "complete" /\ FreshDistinctRun /\ FailedParseClassify = {}) =>
    AllRecorded

\* C21 amended: a completed run over N distinct, uncheckpointed files in
\* which no task failed (parse, classify, the write and the ledger append
\* all succeeded) has appended exactly N records, one per file, and added
\* exactly those N fingerprints to the ledger; and at every completion the
\* successes plus the per-file failures are the submitted tasks.
C21_CleanRunRecordsAll ==
  /\ []((phase = "complete" /\ FreshDistinctRun /\ failed = {}) => AllRecorded)
  /\ [](phase = "complete" => SuccessesPlusFailures)
  /\ [][OneRecordPerWrite]_vars

C21_Witness ==
  /\ phase = "complete"
  /\ FreshDistinctRun
  /\ failed = {}
  /\ Cardinality(marked) = NFiles
  /\ NFiles >= 2

\* C22: the percentile bench reports for count >= 20 samples is the value
\* at position ceil(0.95 * count) of the latencies in ascending order
\* (positions counted from 1), and for fewer samples it is the largest
\* latency.
C22_NearestRank ==
  (bpc = "done" /\ bn >= 1) =>
    LET count == BagCardinality(latencies)
    IN p95 = {IF count >= p95_min_samples
              THEN sorted(latencies)[CeilDiv(95 * count, 100)]
              ELSE MaxOf(latencies)}

\* C29: bench(n) that ran to its end with no failing call has called the
\* retry-wrapped classify exactly n times, and no step of bench changes the
\* ledger file, the in-memory checkpoint set, the output file, the
\* limiter's tokens or the pool's tasks, lists a file, acquires a token or
\* submits a task.
C29_BenchBypasses ==
  /\ [](bpc = "done" => (bcalls = bn /\ BagCardinality(latencies) = bn))
  /\ [][/\ ledger' = ledger
        /\ processed' = processed
        /\ output' = output
        /\ tokens' = tokens
        /\ futures' = futures
        /\ to_process' = to_process
        /\ acquires' = acquires
        /\ phase' = phase]_vars

C29_Witness ==
  /\ bpc = "done"
  /\ bn >= 2
  /\ bcalls >= 2
  /\ processed /= {}
  /\ output /= EmptyBag

\* fingerprints the current run has added to the in-memory set or to the
\* ledger file
AddedInRun == (processed \cup LoadLedger(ledger)) \ startProcessed

\* C23: in every state of a run, every fingerprint the run has added to the
\* ledger already has a record with that id in the output file.
C23_RecordBeforeMark ==
  \A h \in AddedInRun : \E r \in BagToSet(output) : r.id = h

C23_Witness ==
  /\ phase = "awaiting"
  /\ marked /= {}
  /\ step = "mark"
  /\ \E path \in cur : hash_file(content[path]) \notin processed

\* the acquire() calls a run has made: one for each task submitted and one
\* for the candidate that is about to be submitted
OneAcquirePerTask ==
  (phase = "submitting" \/ phase = "awaiting" \/ phase = "complete") =>
    acquires = Cardinality(futures) +
               (IF phase = "submitting" THEN Cardinality(cur) ELSE 0)

\* a step that submits a task: acquire() for that candidate had returned,
\* and the submission itself calls no acquire and takes no token
SubmitAfterAcquire ==
  (phase = "submitting" /\ phase' = "submitting" /\ futures' /= futures) =>
    \E path \in cur :
      /\ step = "submit"
      /\ futures' = futures \cup {<<path, hash_file(content[path])>>}
      /\ acquires' = acquires
      /\ tokens' = tokens

\* a step in which acquire() is called: it returns with one token taken
\* from a bucket that held one, for a candidate that is not checkpointed
AcquireTakesToken ==
  (phase = "submitting" /\ phase' = "submitting" /\ acquires' /= acquires) =>
    /\ acquires' = acquires + 1
    /\ Refill(tokens, capacity, rate, last_checked, now') >= Unit
    /\ tokens' = Refill(tokens, capacity, rate, last_checked, now') - Unit
    /\ \E path \in to_process :
         /\ cur' = {path}
         /\ hash_file(content[path]) \notin processed

\* a step that skips a candidate: it is checkpointed, no acquire() is
\* called, no token is taken and nothing is submitted
SkipIsFree ==
  (phase = "submitting" /\ phase' = "submitting" /\ cur' = {} /\ cur = {}
     /\ to_process' /= to_process) =>
    /\ \E path \in to_process :
         /\ to_process' = to_process \ {path}
         /\ hash_file(content[path]) \in processed
    /\ acquires' = acquires
    /\ tokens' = tokens
    /\ now' = now
    /\ futures' = futures

\* C24: while a run submits, acquire() is called exactly once for each
\* submitted task and has returned before the task is submitted; a
\* candidate skipped as checkpointed takes no token and causes no acquire
\* call.
C24_AcquirePerSubmit ==
  /\ []OneAcquirePerTask
  /\ [][SubmitAfterAcquire /\ AcquireTakesToken /\ SkipIsFree]_vars

C24_Witness ==
  /\ phase = "submitting"
  /\ step = "submit"
  /\ acquires = 1
  /\ tokens < Unit
  /\ \E path \in Paths \ (Submitted \cup cur \cup to_process) :
       hash_file(content[path]) \in startProcessed

\* the order of the phases of run(): listing the files is part of the step
\* that starts the run (idle, complete, raised or exited -> submitting),
\* draining is the step that ends it (awaiting -> complete); a run may
\* also be left by an exception or an interruption
PhaseOrder ==
  {<<"idle", "submitting">>, <<"submitting", "awaiting">>,
   <<"awaiting", "complete">>, <<"complete", "submitting">>,
   <<"idle", "raised">>, <<"complete", "raised">>, <<"raised", "raised">>,
   <<"raised", "submitting">>, <<"submitting", "raised">>,
   <<"submitting", "interrupted">>, <<"awaiting", "interrupted">>,
   <<"interrupted", "exited">>, <<"exited", "submitting">>,
   <<"exited", "raised">>}

\* nothing is collected while candidates are still to be visited or
\* submitted
NoResultBeforeSubmitted ==
  (failed /= {} \/ written /= {} \/ marked /= {}
     \/ step = "write" \/ step = "mark") =>
    /\ phase \in {"awaiting", "complete"}
    /\ to_process = {}

\* the pool is shut down only by a completed run, after every submitted
\* task was handled
ShutdownLast ==
  poolShutdown =>
    /\ phase = "complete"
    /\ to_process = {}
    /\ cur = {}
    /\ \A f \in futures : f[1] \in marked \cup FailedPaths

\* C25: run() goes through its phases in order: no result is classified,
\* written or marked before every candidate was visited and every
\* non-skipped one submitted, and the pool is shut down only after every
\* submitted task was handled.
C25_PhaseOrder ==
  /\ [](NoResultBeforeSubmitted /\ ShutdownLast)
  /\ [][phase' /= phase => <<phase, phase'>> \in PhaseOrder]_vars
  /\ [][(poolShutdown' /\ ~poolShutdown) => (phase = "awaiting" /\ phase' = "complete")]_vars

C25_Witness ==
  /\ phase = "complete"
  /\ poolShutdown
  /\ Cardinality(futures) = NFiles
  /\ marked /= {}
  /\ FailedPaths /= {}

\* the thread whose step changes the tokens or the timestamp holds the lock
\* during that step (it held it before, or took it in the step)
UpdatesUnderLock ==
  (tokens' /= tokens \/ last_checked' /= last_checked) =>
    \E t \in rlLock \cup rlLock' : lpc'[t] /= lpc[t]

\* C26: a thread asleep in acquire() does not hold the lock, at most one
\* thread holds it, the tokens and the timestamp change only in steps of
\* the lock's holder, and a thread that is not inside acquire() (it
\* returned, or an exception raised during its sleep left the call) does
\* not hold the lock.
C26_SleepWithoutLock ==
  /\ [](\A t \in Threads :
          /\ lpc[t] = "sleep" => t \notin rlLock
          /\ lpc[t] = "idle" => t \notin rlLock)
  /\ [](Cardinality(rlLock) <= 1)
  /\ [][UpdatesUnderLock]_vars

\* a thread consumes while another sleeps, after a call was left by an
\* exception
C26_Witness ==
  /\ lcalls > acquired + Cardinality({t \in Threads : lpc[t] /= "idle"})
  /\ \E t, u \in Threads :
       /\ lpc[t] = "sleep"
       /\ lpc[u] = "consume"
       /\ u \in rlLock

\* the tasks of the run, whatever the order: the files whose fingerprint
\* was not in the loaded set
ExpectedSubmitted ==
  {path \in discover(config.input_dir) : hash_file(content[path]) \notin loaded}

\* the records and the ledger set the run ends with, from the files and
\* their fates alone
ExpectedRecords ==
  {result_record(hash_file(content[path]), path, classify(content[path])) :
     path \in {q \in ExpectedSubmitted : fate[q] \in {"ok", "mark"}}}

ExpectedLedger ==
  loaded \cup {hash_file(content[path]) :
                 path \in {q \in ExpectedSubmitted : fate[q] = "ok"}}

\* C27: the tasks are handled in the order in which they complete, any
\* order, and whatever that order the completed run ends with the same
\* output records and the same ledger set: those determined by the files
\* and by what happens to each task.
C27_OrderIndependent ==
  phase = "complete" =>
    /\ output = SetToBag(ExpectedRecords)
    /\ processed = ExpectedLedger
    /\ LoadLedger(ledger) = ExpectedLedger

\* a completed run whose second file was marked before its first
C27_Witness ==
  /\ phase = "complete"
  /\ content[1] /= content[2]
  /\ ledger = LedgerLine(hash_file(content[2])) \o LedgerLine(hash_file(content[1]))

\* number of lines of a ledger file that hold fingerprint h
LedgerCount(file, h) ==
  LET lines == FileLines(file, <<>>)
  IN Cardinality({i \in 1..Len(lines) : Strip(lines[i]) = h})

\* the processes that submitted a task for fingerprint h: each of them
\* found is_processed(h) false
SubmittedBy(h) == {r \in Procs : \E f \in procs[r].futures : f[2] = h}

\* C28: the check (is_processed) and the mark are not one atomic step
\* across processes: every line of the shared ledger and every record of
\* the shared output was put there by a process that had found the
\* fingerprint unprocessed in its own set, one line per such process and one
\* record per such process and file, so two overlapping runs can both do
\* it for the same fingerprint.
C28_CheckThenMarkNotAtomic ==
  /\ \A h \in Fingerprints :
       /\ LedgerCount(ledger, h) <= Cardinality(SubmittedBy(h))
       /\ \A r \in SubmittedBy(h) : h \notin procs[r].loaded
  /\ \A path \in Paths :
       RecordsOf(hash_file(content[path]), path) =
         Cardinality({r \in Procs : path \in procs[r].written})

\* both processes found h unprocessed and both appended a record and a
\* ledger line for it
C28_Witness ==
  \E path \in Paths :
    LET h == hash_file(content[path])
    IN /\ SubmittedBy(h) = Procs
       /\ RecordsOf(h, path) = 2
       /\ LedgerCount(ledger, h) = 2

\* C30: within one run at most one task is submitted and at most one
\* record is written for a fingerprint, files of identical content
\* included.
C30_OncePerFingerprint ==
  \A h \in Fingerprints :
    /\ Cardinality({f \in futures : f[2] = h}) <= 1
    /\ Cardinality({path \in written : hash_file(content[path]) = h}) <= 1

\* C31: a fingerprinting error during the submission loop leaves run() at
\* once; the run that ended so has written no record and marked no
\* checkpoint, whatever it had submitted, it has not shut the pool down,
\* and no step of a run that is submitting or has raised changes the
\* output file or the ledger.
C31_HashErrorPropagates ==
  /\ []((phase = "raised" /\ ~ConstructorRaises(config)) =>
          /\ written = {}
          /\ marked = {}
          /\ failed = {}
          /\ cur = {}
          /\ AddedInRun = {}
          /\ ~poolShutdown)
  /\ [][(phase = "submitting" \/ phase = "raised") =>
          (output' = output /\ ledger' = ledger)]_vars
  /\ [][(phase = "raised" /\ phase' /= phase) => phase' = "submitting"]_vars
  /\ []((phase = "submitting" /\ cur = {} /\ to_process /= {}) =>
          ENABLED (phase' = "raised" /\ HashError))

\* the error came after a task had been submitted
C31_Witness ==
  /\ phase = "raised"
  /\ futures /= {}
  /\ acquires >= 1
  /\ runNo >= 2
  /\ output /= EmptyBag

\* a step in which the ledger append of the running mark_processed(h) call
\* fails
AppendFails ==
  /\ cpc[MainThread] = "append"
  /\ cpc'[MainThread] = "idle"

\* C32: when the ledger append inside mark_processed(h) fails, h is not
\* added to the in-memory set, the file is unchanged and the lock is
\* released, and run() counts a failure of that file, whose record is
\* already in the output file; the lock is free whenever run() is outside
\* mark_processed; and a mark_processed(h) call for an h that is not in the
\* set goes on to the append, a call after a failed one included.
C32_FailedAppendNotMarked ==
  /\ [][AppendFails =>
          /\ processed' = processed
          /\ carg[MainThread] \notin processed'
          /\ ledger' = ledger
          /\ ckLock' = {}
          /\ \E path \in cur :
               /\ <<path, "mark">> \in failed'
               /\ path \notin marked'
               /\ path \in written
               /\ RecordsOf(carg[MainThread], path) >= 1
          /\ phase' = "awaiting"]_vars
  /\ [](cpc[MainThread] = "idle" => ckLock = {})
  /\ [][(cpc[MainThread] = "check" /\ cpc'[MainThread] /= "check") =>
          (cpc'[MainThread] = "append" <=> carg[MainThread] \notin processed)]_vars

\* after a failed append for h, a later mark_processed(h) is at the append
\* again
C32_Witness ==
  /\ cpc[MainThread] = "append"
  /\ \E f \in failed :
       /\ f[2] = "mark"
       /\ hash_file(content[f[1]]) = carg[MainThread]
  /\ carg[MainThread] \notin processed

====
